---- MODULE Spec2Model ----
(***************************************************************************)
(* State-machine model of chaynabors/game-template.                        *)
(*                                                                         *)
(* Two renderers coexist in the source:                                    *)
(*   - GraphicsContext (graphics_context.rs, wgpu): surface configuration, *)
(*     depth texture, get_frame / resize / submit.  Specification SpecGfx. *)
(*   - GraphicsSubsystem (graphics.rs, vulkano): a render thread fed by a  *)
(*     bounded sync_channel, driven by Engine::run (engine.rs).            *)
(*     Specification Spec.                                                 *)
(***************************************************************************)
EXTENDS Integers, Sequences, FiniteSets, TLC

VARIABLES
    \* ---- GraphicsContext (graphics_context.rs:10-19) ----
    surface_config,   \* SurfaceConfiguration: [width, height, format]
    surface,          \* what the platform surface was last configured with
    depth_texture,    \* the depth texture: [width, height, format]
    gfxPc,            \* "ready", or "panicked" after the expect() of get_frame
    lastFrame,        \* history: the last RedrawRequested and what it did
    resizeHist,       \* history: the run of equal resize calls in progress
    \* ---- GraphicsSubsystem / RenderContext / Engine ----
    model_index,      \* GraphicsSubsystem.model_index
    texture_index,    \* GraphicsSubsystem.texture_index
    queue,            \* the commands buffered in the sync_channel
    txAlive,          \* the SyncSender (GraphicsSubsystem.tx) is not dropped
    rxAlive,          \* the Receiver (owned by the render thread) is not dropped
    rtPc,             \* position of the render thread
    swapchain,        \* RenderContext.swapchain: image_extent of its create_info
    images,           \* RenderContext.images: extent of the stored images
    viewport,         \* RenderContext.viewport.extent
    framebuffers,     \* RenderContext.framebuffers: extent of the images they view
    evPc,             \* position of the event thread (Engine::run, main)
    lastCall,         \* history: the last call on GraphicsSubsystem and its result
    modelIds,         \* history: the ids load_model returned, in order
    textureIds,       \* history: the ids load_texture returned, in order
    iter,             \* history: what the current render-loop iteration has done
    rtAtDrop,         \* history: the render thread was running when tx was dropped
    \* ---- RenderContext::new, device selection ----
    physical_devices, \* what instance.enumerate_physical_devices() yields
    devPc,            \* "enumerating", then "done" once RenderContext::new ran
    devResult,        \* what the device selection of RenderContext::new gave
    \* ---- Engine: network receiver thread and sync_state ----
    netPc,            \* receiver thread: "recv" or "ended"
    bytes,            \* bytes.len() of the receive buffer
    incoming_state,   \* the snapshot channel (tx -> rx)
    sync_state,       \* Engine.sync_state, as the tick that last wrote it
    lastPacket,       \* history: the last datagram and what recv returned
    packets,          \* history: datagrams delivered so far
    \* ---- Mesh::load ----
    document,         \* the nodes of the imported document
    positions,        \* positions.len()
    indices,          \* the emitted indices
    position_offset,  \* the local of that name
    meshPc,           \* "node", "prim" or "done"
    node_i,           \* nodes taken so far
    prim_i,           \* primitives of the current node taken so far
    expected          \* history: local index + positions before the primitive

gfxVars == <<surface_config, surface, depth_texture, gfxPc, lastFrame, resizeHist>>
subVars == <<model_index, texture_index, queue, txAlive, rxAlive, rtPc,
             swapchain, images, viewport, framebuffers, evPc,
             lastCall, modelIds, textureIds, iter, rtAtDrop>>
devVars == <<physical_devices, devPc, devResult>>
netVars == <<netPc, bytes, incoming_state, sync_state, lastPacket, packets>>
meshVars == <<document, positions, indices, position_offset, meshPc, node_i,
              prim_i, expected>>
extVars == <<devVars, netVars, meshVars>>
vars == <<gfxVars, subVars, extVars>>

(***************************************************************************)
(* Bounds of the model.                                                    *)
(***************************************************************************)
\* Window dimensions are 0..MaxDim and 65536 (= 2^16, whose square is 2^32).
MaxDim == 2
\* Number of load_model and load_texture calls, taken together, in one run.
MaxCalls == 3
\* Capacity of the sync_channel.  The source sets it to 16
\* (graphics.rs:40); the model scales it down, the channel's behaviour at
\* "full" being the same at every capacity >= 1.
EVENT_BUFFER_SIZE == 3
\* Number of physical devices the instance enumerates.
MaxAdapters == 2
\* Datagrams delivered to the socket, and AboutToWait ticks.
MaxPackets == 3
MaxTick == 3
\* Nodes of a document and primitives of a mesh.
MaxNodes == 2
MaxPrims == 2

Dims == (0..MaxDim) \cup {65536}
PhysicalSize == Dims \X Dims

(***************************************************************************)
(* u32 arithmetic.  width * height is a u32 product; in a release build it *)
(* wraps modulo 2^32.  The product is computed by long multiplication on   *)
(* 8-bit limbs, so that no intermediate value leaves the range of the      *)
(* model checker's integers; the low four limbs are the wrapped product.   *)
(***************************************************************************)
\* The four limbs of (a * b) mod 2^32, least significant first.
wrapping_mul(a, b) ==
    LET a0 == a % 256
        a1 == (a \div 256) % 256
        a2 == (a \div 65536) % 256
        a3 == (a \div 16777216) % 256
        b0 == b % 256
        b1 == (b \div 256) % 256
        b2 == (b \div 65536) % 256
        b3 == (b \div 16777216) % 256
        s0 == a0 * b0
        s1 == a0 * b1 + a1 * b0 + (s0 \div 256)
        s2 == a0 * b2 + a1 * b1 + a2 * b0 + (s1 \div 256)
        s3 == a0 * b3 + a1 * b2 + a2 * b1 + a3 * b0 + (s2 \div 256)
    IN  <<s0 % 256, s1 % 256, s2 % 256, s3 % 256>>

\* self.surface_config.width * self.surface_config.height == 0
AreaIsZero(cfg) ==
    wrapping_mul(cfg.width, cfg.height) = <<0, 0, 0, 0>>

(***************************************************************************)
(* GraphicsContext                                                         *)
(***************************************************************************)
SurfaceFormat == "Bgra8UnormSrgb"
DepthFormat == "Depth32Float"

Op(name) == [op |-> name, arg |-> 0]
OpArg(name, n) == [op |-> name, arg |-> n]

\* create_depth_texture(device, physical_size)
create_depth_texture(size) ==
    [width |-> size[1], height |-> size[2], format |-> DepthFormat]

\* surface.configure(&device, &surface_config)
configure(cfg) == cfg

\* GraphicsContext::new, from surface_config on: the surface is configured
\* and the depth texture created, whatever the size.
GfxNew(size) ==
    LET cfg == [width |-> size[1], height |-> size[2], format |-> SurfaceFormat]
    IN  [surface_config |-> cfg,
         surface        |-> configure(cfg),
         depth_texture  |-> create_depth_texture(size)]

\* A plausible slip: the depth texture is not rebuilt on resize.
resize_keep_depth(cfg, surf, depth, size) ==
    LET c == [cfg EXCEPT !.width = size[1], !.height = size[2]]
    IN  IF ~AreaIsZero(c)
        THEN [surface_config |-> c, surface |-> configure(c), depth_texture |-> depth]
        ELSE [surface_config |-> c, surface |-> surf, depth_texture |-> depth]

\* A plausible slip: the depth texture is built from the size recorded
\* before this call.
resize_stale_size(cfg, surf, depth, size) ==
    LET c == [cfg EXCEPT !.width = size[1], !.height = size[2]]
    IN  IF ~AreaIsZero(c)
        THEN [surface_config |-> c, surface |-> configure(c),
              depth_texture  |-> create_depth_texture(<<cfg.width, cfg.height>>)]
        ELSE [surface_config |-> c, surface |-> surf, depth_texture |-> depth]

\* GraphicsContext::resize
resize(cfg, surf, depth, size) ==
    LET c == [cfg EXCEPT !.width = size[1], !.height = size[2]]
    IN  IF ~AreaIsZero(c)
        THEN [surface_config |-> c, surface |-> configure(c),
              depth_texture  |-> create_depth_texture(size)]
        ELSE [surface_config |-> c, surface |-> surf, depth_texture |-> depth]

\* The platform's answers to the (at most two) get_current_texture calls.
AcquireResult == {"Ok", "Err"}

\* A plausible slip: the zero-area test is missing.
get_frame_no_zero_test(cfg, surf, a1, a2) ==
    IF a1 = "Ok"
    THEN [result |-> "Some", surface |-> surf, acq |-> <<a1>>,
          ops |-> <<Op("get_current_texture")>>]
    ELSE [result |-> IF a2 = "Ok" THEN "Some" ELSE "Panic",
          surface |-> configure(cfg), acq |-> <<a1, a2>>,
          ops |-> <<Op("get_current_texture"), Op("configure"),
                    Op("get_current_texture")>>]

\* A plausible slip: the retry is a loop, so a failed retry reconfigures and
\* tries again (here: once more, successfully).
get_frame_retry_loop(cfg, surf, a1, a2) ==
    IF AreaIsZero(cfg)
    THEN [result |-> "None", surface |-> surf, acq |-> <<>>, ops |-> <<>>]
    ELSE IF a1 = "Ok"
    THEN [result |-> "Some", surface |-> surf, acq |-> <<a1>>,
          ops |-> <<Op("get_current_texture")>>]
    ELSE IF a2 = "Ok"
    THEN [result |-> "Some", surface |-> configure(cfg), acq |-> <<a1, a2>>,
          ops |-> <<Op("get_current_texture"), Op("configure"),
                    Op("get_current_texture")>>]
    ELSE [result |-> "Some", surface |-> configure(cfg), acq |-> <<a1, a2>>,
          ops |-> <<Op("get_current_texture"), Op("configure"),
                    Op("get_current_texture"), Op("configure"),
                    Op("get_current_texture")>>]

\* GraphicsContext::get_frame.  result is "None", "Some" (a frame and its
\* view), or "Panic" (the expect() on the retry); acq are the platform answers
\* consumed; ops are the calls made on the surface, in order.
get_frame(cfg, surf, a1, a2) ==
    IF AreaIsZero(cfg)
    THEN [result |-> "None", surface |-> surf, acq |-> <<>>, ops |-> <<>>]
    ELSE IF a1 = "Ok"
    THEN [result |-> "Some", surface |-> surf, acq |-> <<a1>>,
          ops |-> <<Op("get_current_texture")>>]
    ELSE [result |-> IF a2 = "Ok" THEN "Some" ELSE "Panic",
          surface |-> configure(cfg), acq |-> <<a1, a2>>,
          ops |-> <<Op("get_current_texture"), Op("configure"),
                    Op("get_current_texture")>>]

\* Number of entries of SynchronizedState.player_transforms, one draw each.
PlayerTransforms == 1..4

\* A plausible slip: the frame is presented before the command buffer is
\* submitted.
RenderOps_present_first ==
    <<Op("begin_render_pass_clear"), Op("set_pipeline"), Op("set_buffers")>>
    \o [i \in 1..4 |-> OpArg("draw_indexed", i)]
    \o <<Op("pre_present_notify"), Op("present"), Op("submit")>>

\* The body of the RedrawRequested handler once a frame was acquired:
\* render pass with cleared colour and depth attachments, one indexed draw
\* per player transform, GraphicsContext::submit, then present.
RenderOps ==
    <<Op("begin_render_pass_clear"), Op("set_pipeline"), Op("set_buffers")>>
    \o [i \in PlayerTransforms |-> OpArg("draw_indexed", i)]
    \o <<Op("submit"), Op("pre_present_notify"), Op("present")>>

\* What a caller can observe of the surface / depth pair.
Observable ==
    [width |-> surface_config.width, height |-> surface_config.height,
     format |-> surface_config.format,
     depth_width |-> depth_texture.width, depth_height |-> depth_texture.height,
     depth_format |-> depth_texture.format]

NoFrame ==
    [called |-> FALSE, width |-> 0, height |-> 0, result |-> "None",
     acq |-> <<>>, ops |-> <<>>]
NoResize == [n |-> 0, size |-> <<0, 0>>, obs |-> <<>>]

\* GraphicsContext::new at the window's inner size.  A window is created
\* with a non-zero area (a surface cannot be configured with none).
GfxInit ==
    /\ \E size \in PhysicalSize :
         LET g == GfxNew(size)
         IN  /\ ~AreaIsZero(g.surface_config)
             /\ surface_config = g.surface_config
             /\ surface = g.surface
             /\ depth_texture = g.depth_texture
    /\ gfxPc = "ready"
    /\ lastFrame = NoFrame
    /\ resizeHist = NoResize

\* WindowEvent::Resized handled by GraphicsContext::resize.
GfxResize ==
    /\ gfxPc = "ready"
    /\ \E size \in PhysicalSize :
         LET r == resize(surface_config, surface, depth_texture, size)
         IN  /\ surface_config' = r.surface_config
             /\ surface' = r.surface
             /\ depth_texture' = r.depth_texture
             /\ resizeHist' =
                  IF resizeHist.n >= 1 /\ resizeHist.size = size
                  THEN [resizeHist EXCEPT !.n = 2]
                  ELSE [n |-> 1, size |-> size,
                        obs |-> <<[width |-> r.surface_config.width,
                                   height |-> r.surface_config.height,
                                   format |-> r.surface_config.format,
                                   depth_width |-> r.depth_texture.width,
                                   depth_height |-> r.depth_texture.height,
                                   depth_format |-> r.depth_texture.format]>>]
    /\ UNCHANGED <<gfxPc, lastFrame>>
    /\ UNCHANGED subVars
    /\ UNCHANGED extVars

\* WindowEvent::RedrawRequested: get_frame, and when it yields a frame the
\* render pass, submit and present.
GfxRedraw ==
    /\ gfxPc = "ready"
    /\ \E a1 \in AcquireResult, a2 \in AcquireResult :
         LET f == get_frame(surface_config, surface, a1, a2)
         IN  /\ surface' = f.surface
             /\ gfxPc' = IF f.result = "Panic" THEN "panicked" ELSE "ready"
             /\ lastFrame' =
                  [called |-> TRUE,
                   width  |-> surface_config.width,
                   height |-> surface_config.height,
                   result |-> f.result,
                   acq    |-> f.acq,
                   ops    |-> IF f.result = "Some" THEN f.ops \o RenderOps ELSE f.ops]
    /\ resizeHist' = NoResize
    /\ UNCHANGED <<surface_config, depth_texture>>
    /\ UNCHANGED subVars
    /\ UNCHANGED extVars

(***************************************************************************)
(* GraphicsSubsystem: the command channel                                  *)
(***************************************************************************)
\* The inner size the window is built with (at scale factor 1).
WINDOW_SIZE == <<1280, 720>>

\* Sizes the window reports in WindowEvent::Resized.
WindowSizes == {<<50, 50>>, <<100, 100>>, <<200, 200>>}

\* enum GraphicsCommand
LoadModel(index) == [kind |-> "LoadModel", index |-> index, size |-> <<0, 0>>]
LoadTexture(index) == [kind |-> "LoadTexture", index |-> index, size |-> <<0, 0>>]
ResizeSwapchain(size) == [kind |-> "ResizeSwapchain", index |-> 0, size |-> size]

\* A plausible slip: SyncSender::send in place of try_send; send waits while
\* the buffer is full ("Blocked": the call cannot complete in this state).
send_blocking(q, rx, cmd) ==
    IF ~rx THEN [result |-> "Disconnected", queue |-> q]
    ELSE IF Len(q) >= EVENT_BUFFER_SIZE THEN [result |-> "Blocked", queue |-> q]
    ELSE [result |-> "Ok", queue |-> Append(q, cmd)]

\* A plausible slip: a send to a channel whose receiver is gone is reported
\* as a success.
try_send_ignore_disconnect(q, rx, cmd) ==
    IF rx /\ Len(q) >= EVENT_BUFFER_SIZE THEN [result |-> "Full", queue |-> q]
    ELSE IF ~rx THEN [result |-> "Ok", queue |-> q]
    ELSE [result |-> "Ok", queue |-> Append(q, cmd)]

\* SyncSender::try_send on the channel of sync_channel(EVENT_BUFFER_SIZE):
\* Disconnected once the receiver is dropped, Full when the buffer holds
\* EVENT_BUFFER_SIZE commands, otherwise the command is appended.
try_send(q, rx, cmd) ==
    IF ~rx THEN [result |-> "Disconnected", queue |-> q]
    ELSE IF Len(q) >= EVENT_BUFFER_SIZE THEN [result |-> "Full", queue |-> q]
    ELSE [result |-> "Ok", queue |-> Append(q, cmd)]

\* Receiver::try_recv: buffered commands are delivered even after the sender
\* is dropped; Disconnected only once the buffer is empty.
try_recv(q, tx) ==
    IF q # <<>> THEN "Ok" ELSE IF ~tx THEN "Disconnected" ELSE "Empty"

\* A plausible slip: the handle carries the index of the other counter.
load_model_other_index(mi, ti, q, rx) ==
    LET s == try_send(q, rx, LoadModel(ti))
    IN  [model_index |-> mi + 1, result |-> s.result, queue |-> s.queue,
         id |-> IF s.result = "Ok" THEN ti ELSE 0, sent |-> ti]

\* GraphicsSubsystem::load_model.  The counter is incremented before the
\* send, so also when the send fails; the command carries texture_index.
\* id is the id of the returned Model (0: no Model, the call failed).
load_model(mi, ti, q, rx) ==
    LET s == try_send(q, rx, LoadModel(ti))
    IN  [model_index |-> mi + 1, result |-> s.result, queue |-> s.queue,
         id |-> IF s.result = "Ok" THEN mi + 1 ELSE 0, sent |-> ti]

\* GraphicsSubsystem::load_texture
load_texture(ti, q, rx) ==
    LET s == try_send(q, rx, LoadTexture(ti + 1))
    IN  [texture_index |-> ti + 1, result |-> s.result, queue |-> s.queue,
         id |-> IF s.result = "Ok" THEN ti + 1 ELSE 0, sent |-> ti + 1]

\* GraphicsSubsystem::resize_window
resize_window(q, rx, size) == try_send(q, rx, ResizeSwapchain(size))

(***************************************************************************)
(* RenderContext                                                           *)
(***************************************************************************)
\* What the platform lets recreate_swapchain do: succeed, fail in
\* Swapchain::recreate, or fail in create_framebuffers.
RecreateOutcome == {"Ok", "RecreateErr", "FramebufferErr"}

\* RenderContext::recreate_swapchain with create_framebuffers.  self.images
\* is not assigned.  create_framebuffers sets viewport.extent before it
\* builds the framebuffers, so a failure there leaves the new swapchain and
\* viewport with the old framebuffers.
recreate_swapchain(ctx, new_size, outcome) ==
    CASE outcome = "RecreateErr" -> [ctx EXCEPT !.result = "Err"]
      [] outcome = "FramebufferErr" ->
            [ctx EXCEPT !.swapchain = new_size, !.viewport = new_size,
                        !.result = "Err"]
      [] OTHER ->
            [ctx EXCEPT !.swapchain = new_size, !.viewport = new_size,
                        !.framebuffers = new_size, !.result = "Ok"]

RtRunning == rtPc \in {"recv", "notify"}

\* A plausible slip: `continue` after a command, so the loop polls again
\* without reaching pre_present_notify.
AfterCommandContinue == "recv"

\* Where the render loop goes after a command was applied: it falls out of
\* the match to window.pre_present_notify().
AfterCommand == "notify"

NoIter == [received |-> 0, polled |-> "none"]

\* Render thread, the match on rx.try_recv() of one loop iteration.
\*   Ok(LoadModel | LoadTexture)  todo!() panics: the thread unwinds and
\*                                the receiver is dropped;
\*   Ok(ResizeSwapchain)          recreate_swapchain; `?` returns its error
\*                                from the thread;
\*   Disconnected                 return Ok(());
\*   Empty                        fall through.
RtRecv ==
    /\ rtPc = "recv"
    /\ LET r == try_recv(queue, txAlive)
           cmd == Head(queue)
       IN  /\ iter' = [received |-> IF r = "Ok" /\ iter.received < 2
                                   THEN iter.received + 1 ELSE iter.received,
                       polled   |-> r]
           /\ CASE r = "Ok" /\ cmd.kind \in {"LoadModel", "LoadTexture"} ->
                     /\ rtPc' = "panicked" /\ rxAlive' = FALSE /\ queue' = <<>>
                     /\ UNCHANGED <<swapchain, images, viewport, framebuffers>>
                [] r = "Ok" /\ cmd.kind = "ResizeSwapchain" ->
                     \E outcome \in RecreateOutcome :
                       LET c == recreate_swapchain(
                                  [swapchain |-> swapchain, images |-> images,
                                   viewport |-> viewport,
                                   framebuffers |-> framebuffers,
                                   result |-> "none"],
                                  cmd.size, outcome)
                       IN  /\ swapchain' = c.swapchain /\ images' = c.images
                           /\ viewport' = c.viewport
                           /\ framebuffers' = c.framebuffers
                           /\ IF c.result = "Ok"
                              THEN /\ rtPc' = AfterCommand
                                   /\ queue' = Tail(queue)
                                   /\ UNCHANGED rxAlive
                              ELSE /\ rtPc' = "failed" /\ rxAlive' = FALSE
                                   /\ queue' = <<>>
                [] r = "Disconnected" ->
                     /\ rtPc' = "exited" /\ rxAlive' = FALSE
                     /\ UNCHANGED <<queue, swapchain, images, viewport, framebuffers>>
                [] OTHER ->
                     /\ rtPc' = "notify"
                     /\ UNCHANGED <<queue, rxAlive, swapchain, images, viewport,
                                    framebuffers>>
    /\ UNCHANGED <<model_index, texture_index, txAlive, evPc, lastCall,
                   modelIds, textureIds, rtAtDrop>>
    /\ UNCHANGED gfxVars
    /\ UNCHANGED extVars

\* Render thread, window.pre_present_notify() at the end of the iteration
\* (the redraw request after it is commented out in the source).
RtNotify ==
    /\ rtPc = "notify"
    /\ rtPc' = "recv"
    /\ iter' = NoIter
    /\ UNCHANGED <<model_index, texture_index, queue, txAlive, rxAlive,
                   swapchain, images, viewport, framebuffers, evPc, lastCall,
                   modelIds, textureIds, rtAtDrop>>
    /\ UNCHANGED gfxVars
    /\ UNCHANGED extVars

(***************************************************************************)
(* Event thread: callers of GraphicsSubsystem, Engine::run, main           *)
(***************************************************************************)
\* A call of load_model on the event thread.
LoadModelCall ==
    /\ evPc = "running"
    /\ model_index + texture_index < MaxCalls
    /\ LET r == load_model(model_index, texture_index, queue, rxAlive)
       IN  /\ r.result # "Blocked"
           /\ model_index' = r.model_index
           /\ queue' = r.queue
           /\ lastCall' = [op |-> "load_model", result |-> r.result,
                           id |-> r.id, sent |-> r.sent]
           /\ modelIds' = IF r.result = "Ok" THEN Append(modelIds, r.id)
                          ELSE modelIds
    /\ UNCHANGED <<texture_index, txAlive, rxAlive, rtPc, swapchain, images,
                   viewport, framebuffers, evPc, textureIds, iter, rtAtDrop>>
    /\ UNCHANGED gfxVars
    /\ UNCHANGED extVars

\* A call of load_texture on the event thread.
LoadTextureCall ==
    /\ evPc = "running"
    /\ model_index + texture_index < MaxCalls
    /\ LET r == load_texture(texture_index, queue, rxAlive)
       IN  /\ r.result # "Blocked"
           /\ texture_index' = r.texture_index
           /\ queue' = r.queue
           /\ lastCall' = [op |-> "load_texture", result |-> r.result,
                           id |-> r.id, sent |-> r.sent]
           /\ textureIds' = IF r.result = "Ok" THEN Append(textureIds, r.id)
                            ELSE textureIds
    /\ UNCHANGED <<model_index, txAlive, rxAlive, rtPc, swapchain, images,
                   viewport, framebuffers, evPc, modelIds, iter, rtAtDrop>>
    /\ UNCHANGED gfxVars
    /\ UNCHANGED extVars

\* Engine::run, WindowEvent::Resized(new_size): resize_window, and on any
\* error the error is logged and elwt.exit() is called.
Resized ==
    /\ evPc = "running"
    /\ \E new_size \in WindowSizes :
         LET r == resize_window(queue, rxAlive, new_size)
         IN  /\ r.result # "Blocked"
             /\ queue' = r.queue
             /\ lastCall' = [op |-> "resize_window", result |-> r.result,
                             id |-> 0, sent |-> 0]
             /\ evPc' = IF r.result = "Ok" THEN "running" ELSE "exiting"
    /\ UNCHANGED <<model_index, texture_index, txAlive, rxAlive, rtPc,
                   swapchain, images, viewport, framebuffers, modelIds,
                   textureIds, iter, rtAtDrop>>
    /\ UNCHANGED gfxVars
    /\ UNCHANGED extVars

\* Engine::run, WindowEvent::CloseRequested: elwt.exit().
CloseRequested ==
    /\ evPc = "running"
    /\ evPc' = "exiting"
    /\ UNCHANGED <<model_index, texture_index, queue, txAlive, rxAlive, rtPc,
                   swapchain, images, viewport, framebuffers, lastCall,
                   modelIds, textureIds, iter, rtAtDrop>>
    /\ UNCHANGED gfxVars
    /\ UNCHANGED extVars

\* Engine::run returns once the event loop has exited: self is dropped, and
\* with it GraphicsSubsystem.tx (the JoinHandle is dropped without a join).
RunReturns ==
    /\ evPc = "exiting"
    /\ evPc' = "returned"
    /\ txAlive' = FALSE
    /\ rtAtDrop' = RtRunning
    /\ UNCHANGED <<model_index, texture_index, queue, rxAlive, rtPc,
                   swapchain, images, viewport, framebuffers, lastCall,
                   modelIds, textureIds, iter>>
    /\ UNCHANGED gfxVars
    /\ UNCHANGED extVars

\* main returns after Engine::run: the process ends, and a render thread
\* that is still in its loop ends with it.
MainReturns ==
    /\ evPc = "returned"
    /\ evPc' = "terminated"
    /\ rtPc' = IF RtRunning THEN "killed" ELSE rtPc
    /\ UNCHANGED <<model_index, texture_index, queue, txAlive, rxAlive,
                   swapchain, images, viewport, framebuffers, lastCall,
                   modelIds, textureIds, iter, rtAtDrop>>
    /\ UNCHANGED gfxVars
    /\ UNCHANGED extVars

\* error!(%err, "Failed to resize the window"): the one diagnostic of
\* Engine::run.  A failed resize_window ends the event loop, so it stays the
\* last call.
DiagnosticEmitted ==
    lastCall.op = "resize_window" /\ lastCall.result # "Ok"

NoCall == [op |-> "none", result |-> "none", id |-> 0, sent |-> 0]

\* GraphicsSubsystem::new with RenderContext::new: the swapchain is created
\* at the window's inner size and the render thread is spawned.
SubInit ==
    /\ model_index = 0 /\ texture_index = 0 /\ queue = <<>>
    /\ txAlive = TRUE /\ rxAlive = TRUE /\ rtPc = "recv"
    /\ swapchain = WINDOW_SIZE /\ images = WINDOW_SIZE
    /\ viewport = WINDOW_SIZE /\ framebuffers = WINDOW_SIZE
    /\ evPc = "running"
    /\ lastCall = NoCall
    /\ modelIds = <<>> /\ textureIds = <<>>
    /\ iter = NoIter
    /\ rtAtDrop = FALSE

\* The subsystem at rest, for the specification of GraphicsContext alone.
SubIdle ==
    /\ model_index = 0 /\ texture_index = 0 /\ queue = <<>>
    /\ txAlive = TRUE /\ rxAlive = TRUE /\ rtPc = "recv"
    /\ swapchain = <<1, 1>> /\ images = <<1, 1>> /\ viewport = <<1, 1>>
    /\ framebuffers = <<1, 1>> /\ evPc = "running"
    /\ lastCall = NoCall
    /\ modelIds = <<>> /\ textureIds = <<>>
    /\ iter = NoIter
    /\ rtAtDrop = FALSE

\* The context at rest, for the specification of GraphicsSubsystem alone.
GfxIdle ==
    /\ surface_config = GfxNew(<<1, 1>>).surface_config
    /\ surface = GfxNew(<<1, 1>>).surface
    /\ depth_texture = GfxNew(<<1, 1>>).depth_texture
    /\ gfxPc = "ready"
    /\ lastFrame = NoFrame
    /\ resizeHist = NoResize

(***************************************************************************)
(* RenderContext::new: selection of the physical device and queue family   *)
(***************************************************************************)
PhysicalDeviceType == {"DiscreteGpu", "IntegratedGpu", "VirtualGpu", "Cpu", "Other"}

\* A queue family: its GRAPHICS flag and p.surface_support(i, &surface).
QueueFamily(g, s) == [graphics |-> g, present |-> s]

\* The queue family lists of the enumerated devices.
QueueFamilyLists ==
    { <<QueueFamily(TRUE, FALSE)>>,
      <<QueueFamily(FALSE, TRUE)>>,
      <<QueueFamily(TRUE, TRUE)>>,
      <<QueueFamily(TRUE, FALSE), QueueFamily(FALSE, TRUE)>>,
      <<QueueFamily(FALSE, TRUE), QueueFamily(TRUE, TRUE)>> }

\* A physical device: its type, whether it supports khr_swapchain, and its
\* queue families.
PhysicalDevices ==
    [device_type : PhysicalDeviceType, khr_swapchain : BOOLEAN,
     families : QueueFamilyLists]

\* The key of min_by_key.
DeviceRank(p) ==
    CASE p.device_type = "DiscreteGpu" -> 0
      [] p.device_type = "IntegratedGpu" -> 1
      [] p.device_type = "VirtualGpu" -> 2
      [] p.device_type = "Cpu" -> 3
      [] p.device_type = "Other" -> 4
      [] OTHER -> 5

\* Families of p with the GRAPHICS flag and surface support.
GraphicsPresentFamilies(p) ==
    {i \in DOMAIN p.families : p.families[i].graphics /\ p.families[i].present}

\* .position(..): the index (from 0) of the first such family; -1 for None.
queue_family_position(p) ==
    IF GraphicsPresentFamilies(p) = {} THEN -1
    ELSE (CHOOSE i \in GraphicsPresentFamilies(p) :
            \A j \in GraphicsPresentFamilies(p) : i <= j) - 1

\* The devices left by .filter(..) and .filter_map(..), by place in the
\* enumeration.
Survivors(devices) ==
    {i \in DOMAIN devices :
        devices[i].khr_swapchain /\ queue_family_position(devices[i]) >= 0}

\* A plausible slip: max_by_key semantics for ties, the last of the equally
\* ranked survivors.
select_last_of_best(devices) ==
    IF Survivors(devices) = {} THEN 0
    ELSE CHOOSE i \in Survivors(devices) :
           \A j \in Survivors(devices) :
              \/ DeviceRank(devices[i]) < DeviceRank(devices[j])
              \/ DeviceRank(devices[i]) = DeviceRank(devices[j]) /\ j <= i

\* .min_by_key(..): the survivor of least key, the first of them when
\* several have it; 0 for None.
select_physical_device(devices) ==
    IF Survivors(devices) = {} THEN 0
    ELSE CHOOSE i \in Survivors(devices) :
           \A j \in Survivors(devices) :
              \/ DeviceRank(devices[i]) < DeviceRank(devices[j])
              \/ DeviceRank(devices[i]) = DeviceRank(devices[j]) /\ i <= j

\* What Device::new and queues.next() can give for the selected device.
DeviceOutcome == {"Ok", "DeviceErr", "NoQueue"}

NoDevice == [status |-> "none", chosen |-> 0, queue_family_index |-> -1]

\* A plausible slip: one error for both failures.
create_device_one_error(devices, outcome) ==
    LET i == select_physical_device(devices)
    IN  IF i = 0 \/ outcome = "NoQueue"
        THEN [NoDevice EXCEPT !.status = "No suitable graphics devices"]
        ELSE IF outcome = "DeviceErr"
        THEN [NoDevice EXCEPT !.status = "DeviceError"]
        ELSE [status |-> "Ok", chosen |-> i,
              queue_family_index |-> queue_family_position(devices[i])]

\* RenderContext::new from the enumeration to the queue: ok_or on the
\* selection, Device::new with `?`, ok_or on queues.next().
create_device(devices, outcome) ==
    LET i == select_physical_device(devices)
    IN  IF i = 0
        THEN [NoDevice EXCEPT !.status = "No suitable graphics devices"]
        ELSE IF outcome = "DeviceErr"
        THEN [NoDevice EXCEPT !.status = "DeviceError"]
        ELSE IF outcome = "NoQueue"
        THEN [NoDevice EXCEPT
                !.status = "No suitable graphics queue on selected device"]
        ELSE [status |-> "Ok", chosen |-> i,
              queue_family_index |-> queue_family_position(devices[i])]

\* The instance enumerates one more physical device.
EnumeratePhysicalDevice ==
    /\ devPc = "enumerating"
    /\ Len(physical_devices) < MaxAdapters
    /\ \E p \in PhysicalDevices : physical_devices' = Append(physical_devices, p)
    /\ UNCHANGED <<devPc, devResult>>
    /\ UNCHANGED <<gfxVars, subVars, netVars, meshVars>>

\* RenderContext::new selects the device and creates it.
RenderContextNew ==
    /\ devPc = "enumerating"
    /\ \E outcome \in DeviceOutcome :
         devResult' = create_device(physical_devices, outcome)
    /\ devPc' = "done"
    /\ UNCHANGED physical_devices
    /\ UNCHANGED <<gfxVars, subVars, netVars, meshVars>>

DevInit ==
    /\ physical_devices = <<>> /\ devPc = "enumerating" /\ devResult = NoDevice

\* Device selection at rest, for the other specifications.
DevIdle ==
    /\ physical_devices = <<>> /\ devPc = "done" /\ devResult = NoDevice

(***************************************************************************)
(* Engine::new: the network receiver thread; Engine::run: AboutToWait      *)
(***************************************************************************)
\* size_of::<SynchronizedState>(): four Mat4 of sixteen f32.
SizeOfSynchronizedState == 256

\* Lengths of the datagrams that arrive.
PacketLens == {0, 1, 255, 256, 300}

\* What socket.recv can return for a datagram.
RecvResult == {"Ok", "Err"}

Min(a, b) == IF a <= b THEN a ELSE b

\* A plausible slip: every datagram is decoded and sent, whatever its length.
on_packet_decode_always(chan, buf_len, len) == Append(chan, len)

\* The body of the while loop: the length test guards an empty block (the
\* send is commented out), so the channel is as it was.
on_packet(chan, buf_len, len) ==
    IF buf_len >= SizeOfSynchronizedState THEN chan ELSE chan

NoPacket == [len |-> 0, result |-> "none", bytes_read |-> 0]

\* One turn of `while let Ok(bytes_read) = socket.recv(&mut bytes)`: recv
\* copies at most bytes.len() bytes and never grows the buffer; Err ends
\* the loop and the thread.
NetRecv ==
    /\ netPc = "recv"
    /\ packets < MaxPackets
    /\ \E len \in PacketLens, r \in RecvResult :
         /\ lastPacket' = [len |-> len, result |-> r,
                           bytes_read |-> IF r = "Ok" THEN Min(len, bytes) ELSE 0]
         /\ IF r = "Ok"
            THEN /\ incoming_state' = on_packet(incoming_state, bytes, len)
                 /\ netPc' = "recv"
            ELSE /\ incoming_state' = incoming_state
                 /\ netPc' = "ended"
    /\ packets' = packets + 1
    /\ UNCHANGED <<bytes, sync_state>>
    /\ UNCHANGED <<gfxVars, subVars, devVars, meshVars>>

\* Event::AboutToWait: player_transforms[0] is set from the elapsed time;
\* the receiving end of the channel is not read.
AboutToWait ==
    /\ sync_state < MaxTick
    /\ sync_state' = sync_state + 1
    /\ UNCHANGED <<netPc, bytes, incoming_state, lastPacket, packets>>
    /\ UNCHANGED <<gfxVars, subVars, devVars, meshVars>>

NetInit ==
    /\ netPc = "recv" /\ bytes = 0 /\ incoming_state = <<>> /\ sync_state = 0
    /\ lastPacket = NoPacket /\ packets = 0

NetIdle ==
    /\ netPc = "ended" /\ bytes = 0 /\ incoming_state = <<>> /\ sync_state = 0
    /\ lastPacket = NoPacket /\ packets = 0

(***************************************************************************)
(* Mesh::load                                                              *)
(***************************************************************************)
\* A primitive: its mode, which attributes its reader yields, its index
\* type, the number of its positions and its indices.
Primitive(mode, n, idx) ==
    [mode |-> mode, has_positions |-> TRUE, has_colors |-> TRUE,
     index_type |-> "U16", count |-> n, indices |-> idx]

Primitives ==
    { Primitive("Triangles", 3, <<0, 1, 2>>),
      Primitive("Triangles", 65535, <<0, 1, 2>>),
      Primitive("Lines", 3, <<0, 1, 2>>) }

PrimitiveLists ==
    UNION {[1..n -> Primitives] : n \in 1..MaxPrims}

\* A node: without a mesh, or with the primitives of its mesh.
Nodes ==
    {[has_mesh |-> FALSE, primitives |-> <<>>]}
    \cup {[has_mesh |-> TRUE, primitives |-> ps] : ps \in PrimitiveLists}

\* The nodes of the scenes, in the order the two loops visit them.
Documents == UNION {[1..n -> Nodes] : n \in 0..MaxNodes}

\* The four tests that `continue` past a primitive.
Accepted(p) ==
    /\ p.mode = "Triangles"
    /\ p.has_positions
    /\ p.has_colors
    /\ p.index_type = "U16"

U16(n) == n % 65536

RECURSIVE MapOffset(_, _)
\* indices_iter.map(|i| i + position_offset as u16), in u16 arithmetic that
\* wraps.
MapOffset(idx, offset) ==
    IF idx = <<>> THEN <<>>
    ELSE <<U16(Head(idx) + U16(offset))>> \o MapOffset(Tail(idx), offset)

RECURSIVE MapBase(_, _)
\* The indices of a primitive moved by the number of positions before it.
MapBase(idx, base) ==
    IF idx = <<>> THEN <<>>
    ELSE <<Head(idx) + base>> \o MapBase(Tail(idx), base)

\* `for node in scene.nodes()`: position_offset is taken, and a node
\* without a mesh is passed over.
MeshNode ==
    /\ meshPc = "node"
    /\ node_i < Len(document)
    /\ node_i' = node_i + 1
    /\ position_offset' = positions
    /\ prim_i' = 0
    /\ meshPc' = IF document[node_i + 1].has_mesh THEN "prim" ELSE "node"
    /\ UNCHANGED <<document, positions, indices, expected>>
    /\ UNCHANGED <<gfxVars, subVars, devVars, netVars>>

\* `for primitive in mesh.primitives()`: one primitive of the current node.
MeshPrimitive ==
    /\ meshPc = "prim"
    /\ LET prims == document[node_i].primitives
           p == prims[prim_i + 1]
       IN  /\ IF Accepted(p)
              THEN /\ positions' = positions + p.count
                   /\ indices' = indices \o MapOffset(p.indices, position_offset)
                   /\ expected' = expected \o MapBase(p.indices, positions)
              ELSE UNCHANGED <<positions, indices, expected>>
           /\ prim_i' = prim_i + 1
           /\ meshPc' = IF prim_i + 1 = Len(prims) THEN "node" ELSE "prim"
    /\ UNCHANGED <<document, position_offset, node_i>>
    /\ UNCHANGED <<gfxVars, subVars, devVars, netVars>>

\* The loops are over: Ok(Self { .. }).
MeshLoaded ==
    /\ meshPc = "node"
    /\ node_i = Len(document)
    /\ meshPc' = "done"
    /\ UNCHANGED <<document, positions, indices, position_offset, node_i,
                   prim_i, expected>>
    /\ UNCHANGED <<gfxVars, subVars, devVars, netVars>>

MeshInit ==
    /\ document \in Documents
    /\ positions = 0 /\ indices = <<>> /\ position_offset = 0
    /\ meshPc = "node" /\ node_i = 0 /\ prim_i = 0 /\ expected = <<>>

MeshIdle ==
    /\ document = <<>>
    /\ positions = 0 /\ indices = <<>> /\ position_offset = 0
    /\ meshPc = "done" /\ node_i = 0 /\ prim_i = 0 /\ expected = <<>>

ExtIdle == DevIdle /\ NetIdle /\ MeshIdle

InitDevice == DevInit /\ GfxIdle /\ SubIdle /\ NetIdle /\ MeshIdle
NextDevice == EnumeratePhysicalDevice \/ RenderContextNew
SpecDevice == InitDevice /\ [][NextDevice]_vars

InitNet == NetInit /\ GfxIdle /\ SubIdle /\ DevIdle /\ MeshIdle
NextNet == NetRecv \/ AboutToWait
SpecNet == InitNet /\ [][NextNet]_vars

InitMesh == MeshInit /\ GfxIdle /\ SubIdle /\ DevIdle /\ NetIdle
NextMesh == MeshNode \/ MeshPrimitive \/ MeshLoaded
SpecMesh == InitMesh /\ [][NextMesh]_vars

InitGfx == GfxInit /\ SubIdle /\ ExtIdle
NextGfx == GfxResize \/ GfxRedraw
SpecGfx == InitGfx /\ [][NextGfx]_vars

Init == SubInit /\ GfxIdle /\ ExtIdle
Next ==
    \/ LoadModelCall \/ LoadTextureCall \/ Resized \/ CloseRequested
    \/ RunReturns \/ MainReturns
    \/ RtRecv \/ RtNotify
Spec == Init /\ [][Next]_vars

(***************************************************************************)
(* Claims about GraphicsContext, checked under SpecGfx.                    *)
(***************************************************************************)
CountOps(ops, name) == Cardinality({i \in DOMAIN ops : ops[i].op = name})

\* C1: a RedrawRequested handled while the recorded width or height is 0
\* gets None from get_frame and makes no call at all: no acquisition
\* attempt, no configure of the surface, no render pass, no submit.
C1_ZeroAreaSkipsFrame ==
    (lastFrame.called /\ (lastFrame.width = 0 \/ lastFrame.height = 0))
        => (lastFrame.result = "None" /\ lastFrame.ops = <<>>)

\* A frame requested after the surface was resized from a non-zero size to
\* width 0.
C1_Witness ==
    /\ lastFrame.called /\ lastFrame.width = 0 /\ lastFrame.height # 0
    /\ depth_texture.width # 0
    /\ lastFrame.result = "None"

\* C2 as stated: the depth texture's dimensions always equal the recorded
\* dimensions of surface_config.
C2_DepthEqualsRecorded ==
    /\ depth_texture.width = surface_config.width
    /\ depth_texture.height = surface_config.height

\* C2 as amended: the depth texture's dimensions always equal the dimensions
\* the surface was last configured with, and they equal the recorded
\* dimensions whenever the u32 product width * height is not zero.
C2_DepthEqualsConfigured ==
    /\ depth_texture.width = surface.width
    /\ depth_texture.height = surface.height
    /\ ~AreaIsZero(surface_config) => C2_DepthEqualsRecorded

\* A resize to width 0 after the surface was configured at width 2: the
\* depth texture stays at the configured size.
C2_Witness ==
    /\ resizeHist.n = 1 /\ resizeHist.size[1] = 0
    /\ surface_config.width = 0
    /\ depth_texture.width = 2 /\ surface.width = 2

\* C6: when the first get_current_texture of a get_frame call fails, the
\* surface is configured exactly once and get_current_texture is called
\* exactly once more; a successful retry yields a frame that is rendered and
\* presented, a failed retry is fatal (the expect() panics) and nothing is
\* rendered.  No frame makes more than two acquisition attempts.
C6_RetryOnce ==
    /\ CountOps(lastFrame.ops, "get_current_texture") <= 2
    /\ (lastFrame.called /\ lastFrame.acq # <<>> /\ lastFrame.acq[1] = "Err") =>
          /\ Len(lastFrame.acq) = 2
          /\ CountOps(lastFrame.ops, "configure") = 1
          /\ CountOps(lastFrame.ops, "get_current_texture") = 2
          /\ SubSeq(lastFrame.ops, 1, 3)
                = <<Op("get_current_texture"), Op("configure"),
                    Op("get_current_texture")>>
          /\ lastFrame.acq[2] = "Ok" =>
                /\ lastFrame.result = "Some" /\ gfxPc = "ready"
                /\ lastFrame.ops[Len(lastFrame.ops)] = Op("present")
          /\ lastFrame.acq[2] = "Err" =>
                /\ lastFrame.result = "Panic" /\ gfxPc = "panicked"
                /\ Len(lastFrame.ops) = 3

\* Both acquisition attempts of one frame failed.
C6_Witness ==
    /\ lastFrame.called /\ lastFrame.acq = <<"Err", "Err">>
    /\ gfxPc = "panicked"

\* C10: after two resize calls in a row with the same size, the recorded
\* dimensions, the surface format and the depth texture's dimensions and
\* format are what they were after the first of the two.
C10_ResizeIdempotent ==
    resizeHist.n = 2 => <<Observable>> = resizeHist.obs

\* Two resize calls in a row to 2 x 1.
C10_Witness ==
    /\ resizeHist.n = 2 /\ resizeHist.size = <<2, 1>>
    /\ depth_texture.width = 2 /\ depth_texture.height = 1

(***************************************************************************)
(* Claims about GraphicsSubsystem, the render thread and Engine::run,      *)
(* checked under Spec.                                                     *)
(***************************************************************************)
Fresh(ids) ==
    \A i \in DOMAIN ids :
        /\ ids[i] # 0
        /\ \A j \in DOMAIN ids : j < i => ids[j] # ids[i]

\* C3: no Model returned by load_model carries id 0 or the id of a Model
\* returned earlier, and the same for the Textures of load_texture, whatever
\* calls failed (queue full, receiver gone) in between.
C3_IdsFreshNonZero == Fresh(modelIds) /\ Fresh(textureIds)

\* Two Models were returned after a load_model call that failed: the first
\* returned id is 2, the call that would have returned 1 having failed.
C3_Witness ==
    /\ Len(modelIds) = 2 /\ modelIds[1] = 2
    /\ lastCall.op = "load_model" /\ lastCall.result = "Ok"

AllResizes(q) == \A i \in DOMAIN q : q[i].kind = "ResizeSwapchain"

\* C4 as stated: when the render thread polls with two or more resize
\* requests pending and goes on to its redraw attempt, the swapchain has the
\* size of the most recent of them.
C4_LastResizeWins ==
    [][(rtPc = "recv" /\ rtPc' = "notify" /\ Len(queue) >= 2 /\ AllResizes(queue))
          => swapchain' = queue[Len(queue)].size]_vars

\* C5 as stated: a resize_window that found the queue full leaves the event
\* loop running.
C5_FullIsNotFatal ==
    (lastCall.op = "resize_window" /\ lastCall.result = "Full") => evPc = "running"

\* C7 as stated: a render thread that was in its loop when the sender was
\* dropped ends its loop by returning Ok(()), not by a panic or an error.
C7_CleanShutdown ==
    (rtAtDrop /\ rtPc \in {"exited", "failed", "panicked"}) => rtPc = "exited"

\* C8: an iteration of the render loop polls without waiting (the poll can
\* be taken whatever the queue holds), receives at most one command before
\* pre_present_notify, and goes on to pre_present_notify when the poll finds
\* the queue empty.
C8_OneCommandPerIteration ==
    /\ iter.received <= 1
    /\ rtPc = "recv" => ENABLED RtRecv
    /\ (iter.polled = "Empty" /\ rtPc # "killed") =>
          (rtPc = "notify" /\ iter.received = 0 /\ ENABLED RtNotify)
    /\ (iter.polled = "Ok" /\ RtRunning) => (rtPc = "notify" /\ iter.received = 1)

\* An iteration took one command and is at pre_present_notify while more
\* commands wait in the queue.
C8_Witness ==
    /\ rtPc = "notify" /\ iter.received = 1 /\ Len(queue) >= 2

\* C9: while the event loop runs, load_model, load_texture and the Resized
\* handler's resize_window can each complete in the current state, whatever
\* the channel holds and whether or not the receiver still exists: none of
\* them waits for a step of the render thread.
C9_CallsNeverBlock ==
    evPc = "running" =>
        /\ ENABLED Resized
        /\ model_index + texture_index < MaxCalls =>
              (ENABLED LoadModelCall /\ ENABLED LoadTextureCall)

\* load_model returned Full from a full queue, with the render thread alive,
\* and the event loop runs on.
C9_Witness ==
    /\ lastCall.op = "load_model" /\ lastCall.result = "Full"
    /\ Len(queue) = EVENT_BUFFER_SIZE /\ RtRunning /\ evPc = "running"

(***************************************************************************)
(* Further claims about GraphicsContext, checked under SpecGfx.            *)
(***************************************************************************)
Positions(ops, name) == {i \in DOMAIN ops : ops[i].op = name}

C17_OnlyZeroDimsSkip ==
    /\ (lastFrame.called /\ lastFrame.result = "None")
          => (lastFrame.width = 0 \/ lastFrame.height = 0)
    /\ (resizeHist.n >= 1
        /\ <<depth_texture.width, depth_texture.height>> # resizeHist.size)
          => (surface_config.width = 0 \/ surface_config.height = 0)

(***************************************************************************)
(* Further claims about GraphicsSubsystem, checked under Spec.             *)
(***************************************************************************)
\* C15 as stated: when the render thread has returned the error of
\* recreate_swapchain, a diagnostic is emitted before the process ends.
C15_ErrorsSurface ==
    (evPc = "terminated" /\ rtPc = "failed") => DiagnosticEmitted

\* C16 as stated: the index in the command a successful load_model or
\* load_texture sent equals the id of the handle it returned.
C16_CommandIdIsHandleId ==
    (lastCall.op \in {"load_model", "load_texture"} /\ lastCall.result = "Ok")
        => lastCall.sent = lastCall.id

\* C18 as stated: when recreate_swapchain has succeeded, the stored images,
\* the framebuffers and the viewport are those of the new swapchain.
C18_FieldsFollowSwapchain ==
    (iter.polled = "Ok" /\ rtPc = "notify") =>
        /\ images = swapchain
        /\ framebuffers = swapchain
        /\ viewport = swapchain

\* A step of the event thread that is a call on GraphicsSubsystem.
CallStep ==
    \/ model_index' # model_index
    \/ texture_index' # texture_index
    \/ Len(queue') > Len(queue)
    \/ /\ evPc = "running" /\ evPc' = "exiting"
       /\ lastCall'.op = "resize_window" /\ lastCall'.result # "Ok"

\* C20: once the render thread has left its loop (error, panic, or
\* disconnect), every call of load_model, load_texture and resize_window
\* returns the Disconnected error, and the Resized handler that made the
\* call ends the event loop.
C20_CallsFailAfterRenderThreadEnds ==
    [][(rtPc \in {"failed", "panicked", "exited"} /\ CallStep)
          => /\ lastCall'.result = "Disconnected"
             /\ queue' = queue
             /\ lastCall'.op = "resize_window" => evPc' = "exiting"]_vars

\* A Resized event after the render thread returned an error: the call
\* failed with Disconnected and the event loop is exiting.
C20_Witness ==
    /\ rtPc = "failed"
    /\ lastCall.op = "resize_window" /\ lastCall.result = "Disconnected"
    /\ evPc = "exiting"

(***************************************************************************)
(* Claims about the device selection, checked under SpecDevice.            *)
(***************************************************************************)
\* Devices that support the extension set and presentation to the surface
\* from some queue family, whether or not that family has GRAPHICS.
PresentingDevices(devices) ==
    {i \in DOMAIN devices :
        /\ devices[i].khr_swapchain
        /\ \E k \in DOMAIN devices[i].families : devices[i].families[k].present}

BestOf(devices, i, set) ==
    \A j \in set :
        /\ DeviceRank(devices[i]) <= DeviceRank(devices[j])
        /\ DeviceRank(devices[i]) = DeviceRank(devices[j]) => i <= j

\* C11 as stated: the chosen device is the best ranked, and the first of the
\* best ranked, among the devices that support the extension set and
\* presentation to the surface.
C11_BestOfPresenting ==
    devResult.status = "Ok" =>
        /\ devResult.chosen \in PresentingDevices(physical_devices)
        /\ BestOf(physical_devices, devResult.chosen,
                  PresentingDevices(physical_devices))

\* C11 as amended: the chosen device supports the extension set and has a
\* queue family with both GRAPHICS and surface support; no such device has a
\* strictly better rank, none of equal rank was enumerated earlier, and the
\* queue family index is that of its first such family.
C11_BestOfSurvivors ==
    devResult.status = "Ok" =>
        LET p == physical_devices[devResult.chosen]
        IN  /\ devResult.chosen \in DOMAIN physical_devices
            /\ p.khr_swapchain
            /\ GraphicsPresentFamilies(p) # {}
            /\ devResult.queue_family_index + 1 \in GraphicsPresentFamilies(p)
            /\ \A k \in GraphicsPresentFamilies(p) :
                   devResult.queue_family_index + 1 <= k
            /\ \A j \in DOMAIN physical_devices :
                 LET q == physical_devices[j]
                 IN  (q.khr_swapchain /\ GraphicsPresentFamilies(q) # {}) =>
                        /\ DeviceRank(p) <= DeviceRank(q)
                        /\ DeviceRank(p) = DeviceRank(q) => devResult.chosen <= j

\* Two discrete GPUs pass the filter and the first one is chosen.
C11_Witness ==
    /\ devResult.status = "Ok" /\ devResult.chosen = 1
    /\ Len(physical_devices) = 2
    /\ physical_devices[1].device_type = "DiscreteGpu"
    /\ physical_devices[2].device_type = "DiscreteGpu"
    /\ Survivors(physical_devices) = {1, 2}

\* C12 as stated: the NoSuitableAdapter error is given exactly when no
\* device supports the extension set and presentation; the NoSuitableQueue
\* error when the best ranked of those has no family with both GRAPHICS and
\* surface support; the two differ and neither comes with a device.
C12_ErrorsAsStated ==
    devPc = "done" /\ physical_devices # <<>> =>
        LET presenting == PresentingDevices(physical_devices)
        IN  /\ devResult.status = "No suitable graphics devices"
                <=> presenting = {}
            /\ (\E i \in presenting :
                   /\ BestOf(physical_devices, i, presenting)
                   /\ GraphicsPresentFamilies(physical_devices[i]) = {})
                => devResult.status = "No suitable graphics queue on selected device"

\* C12 as amended: "No suitable graphics devices" is given exactly when no
\* device supports the extension set and has a queue family with both
\* GRAPHICS and surface support; "No suitable graphics queue on selected
\* device" only for a selected device whose creation yields no queue; every
\* failure leaves no device.
C12_ErrorsOfSelection ==
    devPc = "done" =>
        /\ devResult.status = "No suitable graphics devices"
              <=> Survivors(physical_devices) = {}
        /\ devResult.status = "No suitable graphics queue on selected device"
              => Survivors(physical_devices) # {}
        /\ devResult.status # "Ok" =>
              (devResult.chosen = 0 /\ devResult.queue_family_index = -1)
        /\ devResult.status = "Ok" => devResult.chosen \in Survivors(physical_devices)

\* The one enumerated device can present, from a family without GRAPHICS:
\* it is filtered out and the selection fails.
C12_Witness ==
    /\ devPc = "done" /\ Len(physical_devices) = 1
    /\ PresentingDevices(physical_devices) = {1}
    /\ devResult.status = "No suitable graphics devices"

(***************************************************************************)
(* Claims about the network receiver, checked under SpecNet.               *)
(***************************************************************************)
\* C14: when recv returns a datagram shorter than a SynchronizedState,
\* nothing is put on the snapshot channel, sync_state is as it was, and the
\* receiver thread is still in its loop.
C14_ShortPacketDiscarded ==
    [][(packets' = packets + 1
        /\ lastPacket'.result = "Ok"
        /\ lastPacket'.len < SizeOfSynchronizedState) =>
           /\ incoming_state' = incoming_state
           /\ sync_state' = sync_state
           /\ lastPacket'.bytes_read < SizeOfSynchronizedState
           /\ netPc' = "recv"]_vars

\* A short, non-empty datagram was received after sync_state had been
\* written, and the receiver is still running.
C14_Witness ==
    /\ lastPacket.result = "Ok"
    /\ lastPacket.len = 255
    /\ sync_state > 0
    /\ netPc = "recv"
    /\ incoming_state = <<>>

(***************************************************************************)
(* Claims about Mesh::load, checked under SpecMesh.                        *)
(***************************************************************************)
\* C19: every emitted index is its primitive's local index plus the number
\* of positions accumulated before that primitive, and is smaller than the
\* number of positions.
C19_IndicesOffsetByPrimitiveBase ==
    /\ indices = expected
    /\ \A k \in DOMAIN indices : indices[k] < positions

====
